---- MODULE Spec2Model ----
(***************************************************************************)
(* Canvas entity synchronisation of the InvokeAI web front-end:            *)
(*   - the raster-layer reducers of the canvas slice (rasterLayersReducers)*)
(*   - CanvasEntityAdapterRasterLayer.sync / getCanvas                      *)
(*   - the control adapter renderer (renderControlAdapter(s))               *)
(* Each part has its own specification over the shared variables.          *)
(***************************************************************************)
EXTENDS Integers, Sequences, FiniteSets, TLC

VARIABLES
  canvas,           \* CanvasV2State: rasterLayers, controlLayers, selectedEntityIdentifier
  idCounter,        \* number of ids handed out by getPrefixedId
  rasterizedSince,  \* history: cache entries written since the composite last changed
  cacheDropped,     \* history: the last reducer emptied a non-empty composite cache
  adapterState,     \* CanvasEntityAdapterRasterLayer.state (this.state)
  isDestroyed,      \* the adapter has been destroyed
  node,             \* the scene-graph node of the adapter
  calls,            \* every sync call made so far, with its position and step log
  lastDelivered,    \* the state the store subscription delivered last (next prevState)
  canvasOut,        \* the result of the last getCanvas
  opacitySetBy,     \* history: what set the node's opacity last ("none", "sync", "category")
  manager,          \* KonvaNodeManager: entity id -> adapter
  nextSerial,       \* number of Konva layers created so far
  lastRender        \* history: what the last renderControlAdapters call was given and did

layerVars == <<canvas, idCounter, rasterizedSince, cacheDropped>>
syncVars == <<adapterState, isDestroyed, node, calls, lastDelivered, canvasOut, opacitySetBy>>
caVars == <<manager, nextSerial, lastRender>>
vars == <<canvas, idCounter, rasterizedSince, cacheDropped, adapterState, isDestroyed,
          node, calls, lastDelivered, canvasOut, opacitySetBy, manager, nextSerial,
          lastRender>>

\* Optional values (T | undefined, T | null): the empty sequence or a one-element one.
None == <<>>
Some(v) == <<v>>
IsSome(o) == Len(o) > 0
Get(o) == o[1]

\*--------------------------------------------------------------------------
\* Bounds of the model
\*--------------------------------------------------------------------------
MaxLayers == 3
MaxIds == 3
MaxCalls == 3
MaxCanvasCalls == 2
MaxSerial == 3

\*==========================================================================
\* Part I: rasterLayersReducers
\*==========================================================================

\* getPrefixedId(prefix): a fresh id carrying the prefix; n is the number of ids
\* handed out before.
getPrefixedId(prefix, n) == <<prefix, n + 1>>

\* The id carried by recalled (saved) layer data and by an overrides object.
SavedId == <<"raster_layer", 0>>

Hashes == {"h1", "h2"}
ImageNames == {"img1", "img2"}
Absent == "absent"
\* compositeRasterizationCache = {}
EmptyCache == [h \in Hashes |-> Absent]

\* The layer literal of rasterLayerAdded.
DefaultRasterLayer(id) ==
  [id |-> id, name |-> "null", type |-> "raster_layer", isEnabled |-> TRUE,
   objects |-> <<>>, opacity |-> 1, position |-> [x |-> 0, y |-> 0]]

\* Partial<CanvasRasterLayerState>: every field optional.
NoOverrides ==
  [id |-> None, name |-> None, isEnabled |-> None, objects |-> None,
   opacity |-> None, position |-> None]

OverridesSet ==
  { NoOverrides,
    [NoOverrides EXCEPT !.objects = Some(<<"obj1">>)],
    [NoOverrides EXCEPT !.isEnabled = Some(FALSE), !.opacity = Some(0),
                        !.position = Some([x |-> 1, y |-> 1])],
    [NoOverrides EXCEPT !.id = Some(SavedId), !.name = Some("saved")] }

\* lodash merge(layer, overrides): every field the source defines replaces the
\* target's (the target's objects array is empty, so the merged array is the source's).
merge(layer, overrides) ==
  [id |-> IF IsSome(overrides.id) THEN Get(overrides.id) ELSE layer.id,
   name |-> IF IsSome(overrides.name) THEN Get(overrides.name) ELSE layer.name,
   type |-> layer.type,
   isEnabled |-> IF IsSome(overrides.isEnabled) THEN Get(overrides.isEnabled) ELSE layer.isEnabled,
   objects |-> IF IsSome(overrides.objects) THEN Get(overrides.objects) ELSE layer.objects,
   opacity |-> IF IsSome(overrides.opacity) THEN Get(overrides.opacity) ELSE layer.opacity,
   position |-> IF IsSome(overrides.position) THEN Get(overrides.position) ELSE layer.position]

\* Layer data a recall can carry.
RecallData ==
  { [DefaultRasterLayer(SavedId) EXCEPT !.name = "saved"],
    [DefaultRasterLayer(SavedId) EXCEPT !.name = "saved", !.objects = <<"obj1">>,
                                        !.opacity = 0, !.isEnabled = FALSE] }

\* Array.prototype.filter.
RECURSIVE FilterOutId(_, _)
FilterOutId(entities, id) ==
  IF entities = <<>> THEN <<>>
  ELSE IF Head(entities).id # id
       THEN <<Head(entities)>> \o FilterOutId(Tail(entities), id)
       ELSE FilterOutId(Tail(entities), id)

\* selectRasterLayer: Array.prototype.find, the first layer with the id.
HasRasterLayer(s, id) == \E i \in 1..Len(s.rasterLayers.entities) : s.rasterLayers.entities[i].id = id
selectRasterLayer(s, id) ==
  LET es == s.rasterLayers.entities
      i == CHOOSE k \in 1..Len(es) : es[k].id = id /\ \A j \in 1..(k - 1) : es[j].id # id
  IN es[i]

\* A reducer that leaves the cache as it is when a layer with objects arrives.
InvalidatedKeepsCache(s, layer) == s
\* "This new layer will change the composite layer's image data. Invalidate the cache."
InvalidateIfHasObjects(s, layer) ==
  IF Len(layer.objects) > 0
  THEN [s EXCEPT !.rasterLayers.compositeRasterizationCache = EmptyCache]
  ELSE s

rasterLayerAdded(s, id, overrides, isSelected) ==
  LET layer == merge(DefaultRasterLayer(id), overrides)
      s1 == [s EXCEPT !.rasterLayers.entities = Append(@, layer)]
      s2 == IF isSelected
            THEN [s1 EXCEPT !.selectedEntityIdentifier = Some([type |-> "raster_layer", id |-> id])]
            ELSE s1
  IN InvalidateIfHasObjects(s2, layer)

rasterLayerRecalled(s, data) ==
  LET s1 == [s EXCEPT !.rasterLayers.entities = Append(@, data)]
      s2 == [s1 EXCEPT !.selectedEntityIdentifier = Some([type |-> "raster_layer", id |-> data.id])]
  IN InvalidateIfHasObjects(s2, data)

rasterLayerAllDeleted(s) ==
  [s EXCEPT !.rasterLayers.entities = <<>>,
            !.rasterLayers.compositeRasterizationCache = EmptyCache]

rasterLayerCompositeRasterized(s, hash, imageName) ==
  [s EXCEPT !.rasterLayers.compositeRasterizationCache[hash] = imageName]

\* A conversion that gives the control layer the default opacity.
ControlLayerDefaultOpacity(layer, newId) ==
  [id |-> newId, name |-> layer.name, type |-> "control_layer", isEnabled |-> layer.isEnabled,
   objects |-> layer.objects, opacity |-> 1, position |-> layer.position,
   controlAdapter |-> "initialControlNetV2", withTransparencyEffect |-> TRUE]
\* The control layer built from a raster layer: { ...deepClone(layer), id: newId,
\* type: 'control_layer', controlAdapter: ..., withTransparencyEffect: true }.
ControlLayerFrom(layer, newId) ==
  [id |-> newId, name |-> layer.name, type |-> "control_layer", isEnabled |-> layer.isEnabled,
   objects |-> layer.objects, opacity |-> layer.opacity, position |-> layer.position,
   controlAdapter |-> "initialControlNetV2", withTransparencyEffect |-> TRUE]

rasterLayerConvertedToControlLayer(s, id, newId) ==
  IF ~HasRasterLayer(s, id) THEN s
  ELSE LET controlLayerState == ControlLayerFrom(selectRasterLayer(s, id), newId)
       IN [s EXCEPT !.rasterLayers.entities = FilterOutId(@, id),
                    !.controlLayers.entities = Append(@, controlLayerState),
                    !.rasterLayers.compositeRasterizationCache = EmptyCache,
                    !.selectedEntityIdentifier =
                        Some([type |-> controlLayerState.type, id |-> controlLayerState.id])]

\* The slice before any reducer ran.
InitialCanvas ==
  [rasterLayers |-> [entities |-> <<>>, compositeRasterizationCache |-> EmptyCache],
   controlLayers |-> [entities |-> <<>>],
   selectedEntityIdentifier |-> None]

Cache(s) == s.rasterLayers.compositeRasterizationCache
LayerCount(s) == Len(s.rasterLayers.entities) + Len(s.controlLayers.entities)

\* Ids a conversion can be asked for: those of layers, and one no layer has.
KnownIds == {SavedId} \cup {<<"raster_layer", n>> : n \in 1..(MaxIds + 1)}

\* History of the composite cache: cleared by what changes the composite image.
Dropped(s, t) == Cache(s) # EmptyCache /\ Cache(t) = EmptyCache

RasterLayerAdded ==
  \E overrides \in OverridesSet, isSelected \in BOOLEAN :
    /\ idCounter < MaxIds
    /\ LayerCount(canvas) < MaxLayers
    /\ LET id == getPrefixedId("raster_layer", idCounter)
           layer == merge(DefaultRasterLayer(id), overrides)
       IN /\ canvas' = rasterLayerAdded(canvas, id, overrides, isSelected)
          /\ rasterizedSince' = IF Len(layer.objects) > 0 THEN EmptyCache ELSE rasterizedSince
    /\ idCounter' = idCounter + 1
    /\ cacheDropped' = Dropped(canvas, canvas')
    /\ UNCHANGED <<syncVars, caVars>>

RasterLayerRecalled ==
  \E data \in RecallData :
    /\ LayerCount(canvas) < MaxLayers
    /\ canvas' = rasterLayerRecalled(canvas, data)
    /\ rasterizedSince' = IF Len(data.objects) > 0 THEN EmptyCache ELSE rasterizedSince
    /\ cacheDropped' = Dropped(canvas, canvas')
    /\ UNCHANGED <<idCounter, syncVars, caVars>>

RasterLayerAllDeleted ==
  /\ canvas' = rasterLayerAllDeleted(canvas)
  /\ rasterizedSince' = EmptyCache
  /\ cacheDropped' = Dropped(canvas, canvas')
  /\ UNCHANGED <<idCounter, syncVars, caVars>>

RasterLayerCompositeRasterized ==
  \E hash \in Hashes, imageName \in ImageNames :
    /\ canvas' = rasterLayerCompositeRasterized(canvas, hash, imageName)
    /\ rasterizedSince' = [rasterizedSince EXCEPT ![hash] = imageName]
    /\ cacheDropped' = FALSE
    /\ UNCHANGED <<idCounter, syncVars, caVars>>

RasterLayerConvertedToControlLayer ==
  \E id \in KnownIds :
    /\ idCounter < MaxIds
    /\ canvas' = rasterLayerConvertedToControlLayer(canvas, id, getPrefixedId("control_layer", idCounter))
    /\ rasterizedSince' = IF HasRasterLayer(canvas, id) THEN EmptyCache ELSE rasterizedSince
    /\ idCounter' = idCounter + 1
    /\ cacheDropped' = Dropped(canvas, canvas')
    /\ UNCHANGED <<syncVars, caVars>>

\*==========================================================================
\* Part II: CanvasEntityAdapterRasterLayer
\*==========================================================================

\* The fields of CanvasRasterLayerState the adapter reads. objects and position
\* are references (arrays, objects): a value here names one reference.
Fields == {"isEnabled", "isLocked", "objects", "position", "opacity"}
BaseState ==
  [name |-> "n1", isEnabled |-> TRUE, isLocked |-> FALSE, objects |-> "objs1",
   position |-> "pos1", opacity |-> 1]

\* A store update replaces the layer's state object by one in which the named
\* fields have another value; the empty update leaves the same object in place.
Other(f, v) ==
  CASE f = "name" -> IF v = "n1" THEN "n2" ELSE "n1"
    [] f = "isEnabled" -> ~v
    [] f = "isLocked" -> ~v
    [] f = "objects" -> IF v = "objs1" THEN "objs2" ELSE "objs1"
    [] f = "position" -> IF v = "pos1" THEN "pos2" ELSE "pos1"
    [] f = "opacity" -> 1 - v
Updated(state, changed) ==
  [f \in DOMAIN state |-> IF f \in changed THEN Other(f, state[f]) ELSE state[f]]
Updates ==
  {u \in SUBSET (Fields \cup {"name"}) : Cardinality(u) <= 1}
    \cup {{"objects", "position"}, {"objects", "opacity"}, {"position", "opacity"}}

\* The scene-graph node before anything was synced to it.
InitialNode == [f \in Fields |-> None]

\* syncIsEnabled, syncIsLocked, syncPosition, syncOpacity of
\* CanvasEntityAdapterBase: synchronous, without argument; each brings its
\* attribute of the node to the value in this.state before it returns.
SyncStep(nd, f, this) == [nd EXCEPT ![f] = Some(this[f])]

\* syncObjects of CanvasEntityAdapterBase: asynchronous, without argument; the
\* node holds the rendered objects once its promise resolves. Whether it renders
\* the object list this.state held when it was called or the one this.state holds
\* when the rendering finishes is not decided by the adapter's own code, so it
\* may be either.
syncObjectsRenders(atCall, this) == {atCall, this["objects"]}

\* The order of the steps in sync.
SyncOrder == <<"isEnabled", "isLocked", "objects", "position", "opacity">>

\* A sync that waits for no step.
NotAwaited(f) == FALSE
\* await this.syncObjects(): the only step whose completion sync waits for.
Awaited(f) == f = "objects"

\* A sync that runs every step whatever changed.
AlwaysSync(cur, prevState, f) == TRUE
\* if (!prevState || this.state.<f> !== prevState.<f>)
ShouldSync(cur, prevState, f) == ~IsSome(prevState) \/ cur[f] # Get(prevState)[f]

\* A sync whose guards and steps read the state parameter of their own call.
StateParameter(state, this) == state
\* The guards and the steps read this.state, not the state parameter.
StateRead(state, this) == this

\* A sync call: its arguments, where it is, whether its syncObjects is running,
\* the object list this.state held when syncObjects was called and whether another
\* syncObjects was running then, the steps it ran (with the outcome of the
\* comparison that let each run and whether the adapter was destroyed by then) and
\* whether it started while another call was suspended.
NewCall(state, prevState) ==
  [state |-> state, prevState |-> prevState, pc |-> "running", objects |-> "none",
   objectsAtCall |-> None, objectsOverlapped |-> FALSE,
   log |-> <<>>, overlapped |-> \E k \in 1..Len(calls) : calls[k].pc = "awaitObjects"]

\* The body of sync from its i-th step on, until the call suspends or returns.
RECURSIVE RunSteps(_, _, _, _, _)
RunSteps(i, c, nd, this, destroyed) ==
  IF i > Len(SyncOrder) THEN [call |-> [c EXCEPT !.pc = "returned"], node |-> nd]
  ELSE
    LET f == SyncOrder[i]
        cur == StateRead(Get(c.state), this)
    IN IF ShouldSync(cur, c.prevState, f)
       THEN LET entry == [step |-> f,
                          changed |-> ~IsSome(c.prevState) \/ this[f] # Get(c.prevState)[f],
                          destroyed |-> destroyed]
                c1 == IF f = "objects"
                      THEN [c EXCEPT !.log = Append(@, entry),
                                     !.objects = "running",
                                     !.objectsAtCall = Some(cur[f]),
                                     !.objectsOverlapped =
                                        \E k \in 1..Len(calls) : calls[k].objects = "running"]
                      ELSE [c EXCEPT !.log = Append(@, entry)]
                nd1 == IF f = "objects" THEN nd ELSE SyncStep(nd, f, cur)
            IN IF Awaited(f)
               THEN [call |-> [c1 EXCEPT !.pc = "awaitObjects"], node |-> nd1]
               ELSE RunSteps(i + 1, c1, nd1, this, destroyed)
       ELSE RunSteps(i + 1, c, nd, this, destroyed)

\* The call ran syncOpacity between the two points.
RanSyncOpacity(before, after) ==
  \E i \in (Len(before.log) + 1)..Len(after.log) : after.log[i].step = "opacity"

\* sync(state, prevState) with a defined state, up to its await or its return.
\* The store subscription passes the state it delivered before as prevState.
SyncDefined ==
  \E u \in Updates :
    /\ ~isDestroyed
    /\ Len(calls) < MaxCalls
    /\ LET prevState == lastDelivered
           state == IF IsSome(prevState) THEN Updated(Get(prevState), u)
                    ELSE Updated(BaseState, u)
           c == NewCall(Some(state), prevState)
           r == IF IsSome(prevState) /\ Get(prevState) = state
                THEN [call |-> [c EXCEPT !.pc = "returned"], node |-> node]
                ELSE RunSteps(1, c, node, state, isDestroyed)
       IN /\ adapterState' = Some(state)
          /\ lastDelivered' = Some(state)
          /\ calls' = Append(calls, r.call)
          /\ node' = r.node
          /\ opacitySetBy' = IF RanSyncOpacity(c, r.call) THEN "sync" ELSE opacitySetBy
    /\ UNCHANGED <<isDestroyed, canvasOut, layerVars, caVars>>

\* sync(undefined, prevState): the entity left the store; destroy() and return.
SyncUndefined ==
  /\ ~isDestroyed
  /\ IsSome(lastDelivered)
  /\ Len(calls) < MaxCalls
  /\ isDestroyed' = TRUE
  /\ calls' = Append(calls, [NewCall(None, lastDelivered) EXCEPT !.pc = "returned"])
  /\ lastDelivered' = None
  /\ UNCHANGED <<adapterState, node, canvasOut, opacitySetBy, layerVars, caVars>>

\* The promise of a call's syncObjects resolves: the node holds the objects it
\* rendered, and a call suspended on it goes on with the steps after the await.
SyncObjectsCompletes ==
  \E k \in 1..Len(calls) :
    /\ calls[k].objects = "running"
    /\ \E rendered \in syncObjectsRenders(Get(calls[k].objectsAtCall), Get(adapterState)) :
         LET done == [step |-> "objectsDone", changed |-> FALSE, destroyed |-> isDestroyed]
             c == [calls[k] EXCEPT !.objects = "complete", !.log = Append(@, done)]
             nd == [node EXCEPT !["objects"] = Some(rendered)]
             r == IF c.pc = "awaitObjects"
                  THEN RunSteps(4, c, nd, Get(adapterState), isDestroyed)
                  ELSE [call |-> c, node |-> nd]
         IN /\ calls' = [calls EXCEPT ![k] = r.call]
            /\ node' = r.node
            /\ opacitySetBy' = IF RanSyncOpacity(c, r.call) THEN "sync" ELSE opacitySetBy
    /\ UNCHANGED <<adapterState, isDestroyed, lastDelivered, canvasOut, layerVars, caVars>>

\* The opacity of the node changes when the user selects another entity category
\* (the comment in getCanvas).
EntityCategoryOpacityChanged ==
  \E o \in {0, 1} :
    /\ ~isDestroyed
    /\ IsSome(adapterState)
    /\ node' = [node EXCEPT !["opacity"] = Some(o)]
    /\ opacitySetBy' = "category"
    /\ UNCHANGED <<adapterState, isDestroyed, calls, lastDelivered, canvasOut, layerVars, caVars>>

\* Attributes taken from the node as it is.
AttrsFromNode(this, nd) == [opacity |-> nd["opacity"]]
\* const attrs: GroupConfig = { opacity: this.state.opacity }
getCanvasAttrs(this, nd) == [opacity |-> Some(this.opacity)]

\* renderer.getCanvas({ rect, attrs }): the node drawn with attrs in place of
\* its own attributes; the opacity the canvas is drawn with.
rendererGetCanvas(nd, attrs) == [opacity |-> attrs.opacity]

\* getCanvas(rect); the result is kept with the opacity of this.state and of the
\* node at the time of the call.
GetCanvas ==
  /\ ~isDestroyed
  /\ IsSome(adapterState)
  /\ canvasOut' = Some([canvas |-> rendererGetCanvas(node, getCanvasAttrs(Get(adapterState), node)),
                        stateOpacity |-> Get(adapterState).opacity,
                        nodeOpacity |-> node["opacity"]])
  /\ UNCHANGED <<adapterState, isDestroyed, node, calls, lastDelivered, opacitySetBy,
                 layerVars, caVars>>

\*==========================================================================
\* Part III: control adapter renderer (renderControlAdapter, renderControlAdapters)
\*==========================================================================
EntityIds == {"ca1", "ca2"}

\* Image objects of an entity: the object's id and the name of its image.
NoImages == [imageObject |-> None, processedImageObject |-> None]
ImageConfigs ==
  { [imageObject |-> Some([id |-> "image_1", image |-> "img1"]), processedImageObject |-> None],
    [imageObject |-> Some([id |-> "image_1", image |-> "img1"]),
     processedImageObject |-> Some([id |-> "image_1p", image |-> "img1_processed"])] }

\* opacity, isEnabled and filter of an entity.
AttrConfigs ==
  { [opacity |-> 1, isEnabled |-> TRUE, filter |-> "none"],
    [opacity |-> 0, isEnabled |-> TRUE, filter |-> "none"],
    [opacity |-> 0, isEnabled |-> FALSE, filter |-> "LightnessToAlphaFilter"] }

Entity(id, img, attr) ==
  [id |-> id, imageObject |-> img.imageObject, processedImageObject |-> img.processedImageObject,
   opacity |-> attr.opacity, isEnabled |-> attr.isEnabled, filter |-> attr.filter]

\* The states of the entities in the store: the first entity takes every image
\* and attribute configuration, the second one is there for the reconciliation
\* of the adapter set and has an image or none.
EntitiesOf(id) ==
  IF id = "ca1"
  THEN {Entity(id, img, attr) : img \in ImageConfigs, attr \in AttrConfigs}
         \cup {Entity(id, NoImages, [opacity |-> 1, isEnabled |-> TRUE, filter |-> "none"])}
  ELSE {Entity(id, img, [opacity |-> 1, isEnabled |-> TRUE, filter |-> "none"]) :
          img \in {NoImages, [imageObject |-> Some([id |-> "image_2", image |-> "img2"]),
                              processedImageObject |-> None]}}

\* The entity lists of the store: each id at most once.
EntityLists ==
  {<<>>} \cup {<<e>> : e \in EntitiesOf("ca1") \cup EntitiesOf("ca2")}
         \cup {<<e1, e2>> : e1 \in EntitiesOf("ca1"), e2 \in EntitiesOf("ca2")}

IdsOf(entities) == {entities[i].id : i \in 1..Len(entities)}

\* manager.getAll(), manager.get(id), manager.destroy(id), manager.add(id, ...):
\* the manager is a map from entity id to adapter.
managerDestroy(m, id) == [i \in DOMAIN m \ {id} |-> m[i]]
managerAdd(m, id, adapter) == [i \in DOMAIN m \cup {id} |-> IF i = id THEN adapter ELSE m[i]]

\* new Konva.Layer({ id: entity.id, ... }) with its object group: a new adapter
\* without entries; serial tells the Konva layers apart.
NewAdapter(serial) == [serial |-> serial, entries |-> <<>>]

\* A getControlAdapter that makes a new layer every time.
createControlAdapter(m, n, entity) ==
  [manager |-> managerAdd(m, entity.id, NewAdapter(n + 1)), serial |-> n + 1]
\* getControlAdapter: the adapter of the entity, created when the manager has none.
getControlAdapter(m, n, entity) ==
  IF entity.id \in DOMAIN m THEN [manager |-> m, serial |-> n]
  ELSE [manager |-> managerAdd(m, entity.id, NewAdapter(n + 1)), serial |-> n + 1]

\* entity.filter === 'LightnessToAlphaFilter' ? [LightnessToAlphaFilter] : []
FiltersOf(entity) == IF entity.filter = "LightnessToAlphaFilter" THEN <<"LightnessToAlphaFilter">> ELSE <<>>

\* entity.processedImageObject ?? entity.imageObject
ImageObjectOf(entity) ==
  IF IsSome(entity.processedImageObject) THEN entity.processedImageObject ELSE entity.imageObject

\* What the onLoad closure of a render call applies with the loaded image: the
\* image source and the filters, opacity and visibility captured by that call.
OnLoad(imageObject, entity) ==
  [source |-> imageObject.image, filters |-> FiltersOf(entity),
   opacity |-> entity.opacity, visible |-> entity.isEnabled]

\* createImageObjectGroup({ adapter, obj, name, onLoad }): adds the image entry
\* of the object to the adapter and starts loading its image.
createImageObjectGroup(adapter, imageObject, onLoad) ==
  [adapter EXCEPT !.entries =
     <<[id |-> imageObject.id, isLoading |-> TRUE, isError |-> FALSE,
        konvaImage |-> None, pending |-> Some(onLoad)]>>]

\* updateImageSource({ objectRecord, image, onLoad }): starts loading another
\* image into an existing entry.
updateImageSource(entry, onLoad) ==
  [entry EXCEPT !.isLoading = TRUE, !.pending = Some(onLoad)]

\* The else branch of renderControlAdapter: the image source is current; filters
\* (when they differ), opacity and visibility are set on the Konva image.
SetAttrs(entry, entity) ==
  LET img == Get(entry.konvaImage)
      filters == FiltersOf(entity)
      img1 == IF img.filters # filters THEN [img EXCEPT !.filters = filters] ELSE img
  IN [entry EXCEPT !.konvaImage = Some([img1 EXCEPT !.opacity = entity.opacity,
                                                     !.visible = entity.isEnabled])]

\* renderControlAdapter(manager, entity), up to its await; nothing follows the await.
renderControlAdapter(m, n, entity) ==
  LET g == getControlAdapter(m, n, entity)
      adapter == g.manager[entity.id]
      imageObject == ImageObjectOf(entity)
      put(a) == [manager |-> [g.manager EXCEPT ![entity.id] = a], serial |-> g.serial]
  IN IF ~IsSome(imageObject)
     THEN put([adapter EXCEPT !.entries = <<>>])
     ELSE IF adapter.entries = <<>>
     THEN put(createImageObjectGroup(adapter, Get(imageObject), OnLoad(Get(imageObject), entity)))
     ELSE LET entry == adapter.entries[1] IN
          IF entry.isLoading \/ entry.isError THEN g
          ELSE IF Get(entry.konvaImage).source # Get(imageObject).image
          THEN put([adapter EXCEPT !.entries[1] =
                      updateImageSource(entry, OnLoad(Get(imageObject), entity))])
          ELSE put([adapter EXCEPT !.entries[1] = SetAttrs(entry, entity)])

\* "Destroy nonexistent layers"
RECURSIVE DestroyNonexistent(_, _)
DestroyNonexistent(m, entities) ==
  IF \A id \in DOMAIN m : id \in IdsOf(entities) THEN m
  ELSE LET id == CHOOSE i \in DOMAIN m : i \notin IdsOf(entities)
       IN DestroyNonexistent(managerDestroy(m, id), entities)

\* for (const entity of entities) renderControlAdapter(manager, entity)
RECURSIVE RenderEach(_, _, _)
RenderEach(m, n, entities) ==
  IF entities = <<>> THEN [manager |-> m, serial |-> n]
  ELSE LET r == renderControlAdapter(m, n, Head(entities))
       IN RenderEach(r.manager, r.serial, Tail(entities))

renderControlAdapters(m, n, entities) ==
  RenderEach(DestroyNonexistent(m, entities), n, entities)

\* The entities whose image entry is loading (entry.isLoading).
LoadingIds(m) == {id \in DOMAIN m : m[id].entries # <<>> /\ m[id].entries[1].isLoading}

\* The store's control adapter entities changed and were rendered.
RenderControlAdapters ==
  \E entities \in EntityLists :
    /\ nextSerial + Cardinality(IdsOf(entities) \ DOMAIN manager) <= MaxSerial
    /\ LET r == renderControlAdapters(manager, nextSerial, entities)
       IN /\ manager' = r.manager
          /\ nextSerial' = r.serial
    /\ lastRender' = Some([entities |-> entities,
                           before |-> [id \in DOMAIN manager |-> manager[id].serial],
                           loading |-> LoadingIds(manager)])
    /\ UNCHANGED <<layerVars, syncVars>>

\* The image of a loading entry arrives: the entry shows it and onLoad runs.
ImageLoaded ==
  \E id \in DOMAIN manager :
    /\ manager[id].entries # <<>>
    /\ manager[id].entries[1].isLoading
    /\ LET entry == manager[id].entries[1]
       IN manager' = [manager EXCEPT ![id].entries[1] =
                        [entry EXCEPT !.isLoading = FALSE, !.isError = FALSE,
                                      !.konvaImage = entry.pending, !.pending = None]]
    /\ UNCHANGED <<nextSerial, lastRender, layerVars, syncVars>>

\* The image of a loading entry fails to load.
ImageLoadFailed ==
  \E id \in DOMAIN manager :
    /\ manager[id].entries # <<>>
    /\ manager[id].entries[1].isLoading
    /\ manager' = [manager EXCEPT ![id].entries[1] =
                     [@ EXCEPT !.isLoading = FALSE, !.isError = TRUE, !.pending = None]]
    /\ UNCHANGED <<nextSerial, lastRender, layerVars, syncVars>>

\*==========================================================================
\* Initial state and specifications
\*==========================================================================
Init ==
  /\ canvas = InitialCanvas
  /\ idCounter = 0
  /\ rasterizedSince = EmptyCache
  /\ cacheDropped = FALSE
  /\ adapterState = None
  /\ isDestroyed = FALSE
  /\ node = InitialNode
  /\ calls = <<>>
  /\ lastDelivered = None
  /\ canvasOut = None
  /\ opacitySetBy = "none"
  /\ manager = <<>>
  /\ nextSerial = 0
  /\ lastRender = None

NextLayers ==
  \/ RasterLayerAdded
  \/ RasterLayerRecalled
  \/ RasterLayerAllDeleted
  \/ RasterLayerCompositeRasterized
  \/ RasterLayerConvertedToControlLayer

SpecLayers == Init /\ [][NextLayers]_vars

NextSync ==
  \/ SyncDefined
  \/ SyncUndefined
  \/ SyncObjectsCompletes
  \/ EntityCategoryOpacityChanged

SpecSync == Init /\ [][NextSync]_vars

\* getCanvas and the opacity changes are explored along at most MaxCanvasCalls
\* sync calls.
NextCanvas ==
  \/ (Len(calls) < MaxCanvasCalls /\ SyncDefined)
  \/ (Len(calls) < MaxCanvasCalls /\ SyncUndefined)
  \/ SyncObjectsCompletes
  \/ EntityCategoryOpacityChanged
  \/ GetCanvas

SpecCanvas == Init /\ [][NextCanvas]_vars

NextControlAdapters ==
  \/ RenderControlAdapters
  \/ ImageLoaded
  \/ ImageLoadFailed

SpecControlAdapters == Init /\ [][NextControlAdapters]_vars

\*==========================================================================
\* Properties of the raster-layer reducers (checked under SpecLayers)
\*==========================================================================
RasterEntities == canvas.rasterLayers.entities
ControlEntities == canvas.controlLayers.entities

\* C4: every entry of compositeRasterizationCache was written by a
\* rasterLayerCompositeRasterized that came after the last reducer that changes
\* the composite image; each such reducer leaves the cache empty.
C4_CacheHoldsOnlyEntriesRasterizedSince ==
  Cache(canvas) = rasterizedSince

\* A reducer has just emptied a cache that held rasterized entries, by adding or
\* recalling a layer with objects.
C4_Witness ==
  /\ cacheDropped
  /\ Len(RasterEntities) > 0
  /\ Len(RasterEntities[Len(RasterEntities)].objects) > 0

\* A step of rasterLayerConvertedToControlLayer for id (newId comes from prepare).
ConvertedStep(id) ==
  /\ idCounter' = idCounter + 1
  /\ canvas' = rasterLayerConvertedToControlLayer(canvas, id, getPrefixedId("control_layer", idCounter))
  /\ (HasRasterLayer(canvas, id) \/ canvas' = canvas)

Matching(entities, id) == {i \in 1..Len(entities) : entities[i].id = id}
FirstMatch(entities, id) == CHOOSE i \in Matching(entities, id) : \A j \in Matching(entities, id) : i <= j
WithoutIndex(entities, i) == SubSeq(entities, 1, i - 1) \o SubSeq(entities, i + 1, Len(entities))
WithoutId(entities, id) == SelectSeq(entities, LAMBDA l : l.id # id)

\* What a conversion does to the control layers and the selection, given the
\* raster layer it converts.
ConvertedControlLayerAppended(removed, newId) ==
  LET cs == canvas'.controlLayers.entities
      c == cs[Len(cs)]
  IN /\ Len(cs) = Len(ControlEntities) + 1
     /\ SubSeq(cs, 1, Len(ControlEntities)) = ControlEntities
     /\ c.id = newId
     /\ c.type = "control_layer"
     /\ c.withTransparencyEffect = TRUE
     /\ c.objects = removed.objects
     /\ c.position = removed.position
     /\ c.opacity = removed.opacity
     /\ c.isEnabled = removed.isEnabled
     /\ canvas'.selectedEntityIdentifier = Some([type |-> "control_layer", id |-> newId])

\* C9 as stated: the (one) raster layer with the id is removed, the others keep
\* their order and content, and the number of raster plus control layers is unchanged.
C9_AsStated ==
  [][\A id \in KnownIds :
       ConvertedStep(id) =>
         IF ~HasRasterLayer(canvas, id) THEN canvas' = canvas
         ELSE /\ canvas'.rasterLayers.entities =
                   WithoutIndex(RasterEntities, FirstMatch(RasterEntities, id))
              /\ ConvertedControlLayerAppended(RasterEntities[FirstMatch(RasterEntities, id)],
                                               getPrefixedId("control_layer", idCounter))
              /\ LayerCount(canvas') = LayerCount(canvas)]_vars

\* C9 (amended): when no raster layer has the id the state is unchanged; otherwise
\* every raster layer with that id is removed, the others keep their order and
\* content, one control layer copying the first raster layer with that id is
\* appended and selected, and the number of raster plus control layers drops by
\* the number of raster layers with that id minus one (it is unchanged exactly
\* when one raster layer has the id).
C9_ConvertedRemovesEveryLayerWithId ==
  [][\A id \in KnownIds :
       ConvertedStep(id) =>
         IF ~HasRasterLayer(canvas, id) THEN canvas' = canvas
         ELSE /\ canvas'.rasterLayers.entities = WithoutId(RasterEntities, id)
              /\ \A i \in 1..Len(canvas'.rasterLayers.entities) :
                   canvas'.rasterLayers.entities[i].id # id
              /\ ConvertedControlLayerAppended(RasterEntities[FirstMatch(RasterEntities, id)],
                                               getPrefixedId("control_layer", idCounter))
              /\ LayerCount(canvas') =
                   LayerCount(canvas) - (Cardinality(Matching(RasterEntities, id)) - 1)]_vars

\* A conversion has happened: its control layer is selected, it copied a layer
\* with objects and non-default opacity, and other raster layers remain.
C9_Witness ==
  /\ Len(ControlEntities) > 0
  /\ Len(RasterEntities) > 0
  /\ LET c == ControlEntities[Len(ControlEntities)]
     IN /\ canvas.selectedEntityIdentifier = Some([type |-> "control_layer", id |-> c.id])
        /\ c.opacity = 0
        /\ Len(c.objects) > 0

\* C10: a selectedEntityIdentifier of type raster_layer identifies a layer of
\* rasterLayers.entities, one of type control_layer a layer of controlLayers.entities.
C10_SelectedEntityIsPresent ==
  IsSome(canvas.selectedEntityIdentifier) =>
    LET sel == Get(canvas.selectedEntityIdentifier)
    IN /\ sel.type = "raster_layer" => \E i \in 1..Len(RasterEntities) : RasterEntities[i].id = sel.id
       /\ sel.type = "control_layer" => \E i \in 1..Len(ControlEntities) : ControlEntities[i].id = sel.id

\* A step of rasterLayerAdded with the given overrides and isSelected (the id of
\* the payload comes from prepare).
AddedStep(overrides, isSelected) ==
  /\ idCounter' = idCounter + 1
  /\ canvas' = rasterLayerAdded(canvas, getPrefixedId("raster_layer", idCounter), overrides, isSelected)

\* A field of the new layer: the override when one is given, the default otherwise.
Overridden(override, default) == IF override = None THEN default ELSE override[1]

\* C11: rasterLayerAdded appends exactly one layer at the end of
\* rasterLayers.entities, with the defaults (type 'raster_layer', isEnabled true,
\* no objects, opacity 1, position (0,0), name null) overridden by the overrides
\* and with the id of the payload; the existing layers are unchanged;
\* selectedEntityIdentifier becomes the new layer if isSelected and is unchanged
\* otherwise; compositeRasterizationCache is unchanged when the new layer has no
\* objects.
C11_AddedAppendsLayerWithPayloadId ==
  [][\A overrides \in OverridesSet, isSelected \in BOOLEAN :
       AddedStep(overrides, isSelected) =>
         LET id == getPrefixedId("raster_layer", idCounter)
             es == canvas'.rasterLayers.entities
             new == es[Len(es)]
         IN /\ Len(es) = Len(RasterEntities) + 1
            /\ SubSeq(es, 1, Len(RasterEntities)) = RasterEntities
            /\ canvas'.controlLayers = canvas.controlLayers
            /\ new.id = id
            /\ new.type = "raster_layer"
            /\ new.name = Overridden(overrides.name, "null")
            /\ new.isEnabled = Overridden(overrides.isEnabled, TRUE)
            /\ new.objects = Overridden(overrides.objects, <<>>)
            /\ new.opacity = Overridden(overrides.opacity, 1)
            /\ new.position = Overridden(overrides.position, [x |-> 0, y |-> 0])
            /\ canvas'.selectedEntityIdentifier =
                 IF isSelected THEN Some([type |-> "raster_layer", id |-> new.id])
                 ELSE canvas.selectedEntityIdentifier
            /\ (new.objects = <<>> => Cache(canvas') = Cache(canvas))]_vars

\*==========================================================================
\* Properties of CanvasEntityAdapterRasterLayer (checked under SpecSync, C5
\* under SpecCanvas)
\*==========================================================================
AllReturned == \A k \in 1..Len(calls) : calls[k].pc = "returned"
StepsOf(c) == [i \in 1..Len(c.log) |-> c.log[i].step]
StepEntries(c) == {i \in 1..Len(c.log) : c.log[i].step \in Fields}
OrderIndex(f) == CHOOSE i \in 1..Len(SyncOrder) : SyncOrder[i] = f

\* The last sync call that called syncObjects (the first call always does).
ObjectsCalls == {k \in 1..Len(calls) : calls[k].objects # "none"}
LastObjectsCall == CHOOSE k \in ObjectsCalls : \A j \in ObjectsCalls : j <= k

\* C1 as stated: once every sync call has returned, the node's enabled flag,
\* locked flag, objects, position and opacity are those of the state delivered
\* last (for deliveries of defined states, whatever their interleaving with
\* suspended calls).
C1_AsStated ==
  (AllReturned /\ ~isDestroyed /\ IsSome(lastDelivered)) =>
    \A f \in Fields : node[f] = Some(Get(lastDelivered)[f])

\* C1 (amended): once every sync call has returned, the node's enabled flag,
\* locked flag and position are those of the state delivered last; its opacity
\* is that of the state delivered last unless the selection of another entity
\* category changed it after the last syncOpacity; every syncObjects has
\* completed and the last one was called with this.state holding the objects
\* delivered last, and the node holds those objects when that last syncObjects
\* was called while no other syncObjects was running.
C1_NodeFollowsLastDeliveredState ==
  (AllReturned /\ ~isDestroyed /\ IsSome(lastDelivered)) =>
    LET last == Get(lastDelivered) IN
    /\ \A f \in {"isEnabled", "isLocked", "position"} : node[f] = Some(last[f])
    /\ opacitySetBy # "category" => node["opacity"] = Some(last["opacity"])
    /\ ObjectsCalls # {}
    /\ \A k \in ObjectsCalls : calls[k].objects = "complete"
    /\ calls[LastObjectsCall].objectsAtCall = Some(last["objects"])
    /\ ~calls[LastObjectsCall].objectsOverlapped => node["objects"] = Some(last["objects"])

\* Every call has returned; the second call changed the objects and was suspended
\* in its syncObjects, alone, when an update that changed the position arrived;
\* the node's opacity was last set by a syncOpacity.
C1_Witness ==
  /\ AllReturned
  /\ ~isDestroyed
  /\ Len(calls) >= 3
  /\ calls[3].overlapped
  /\ Get(calls[2].state)["position"] # Get(lastDelivered)["position"]
  /\ LastObjectsCall = 2
  /\ ~calls[2].objectsOverlapped
  /\ opacitySetBy = "sync"

\* C6 as stated: with prevState defined a step runs only if its field differs
\* between the call's state and prevState; no step runs when they are the same
\* object; with prevState undefined all five steps run.
C6_AsStated ==
  \A k \in 1..Len(calls) :
    LET c == calls[k] IN
    IsSome(c.state) =>
      /\ IsSome(c.prevState) =>
           \A i \in StepEntries(c) : Get(c.state)[c.log[i].step] # Get(c.prevState)[c.log[i].step]
      /\ c.prevState = c.state => c.log = <<>>
      /\ (~IsSome(c.prevState) /\ c.pc = "returned") =>
           {c.log[i].step : i \in StepEntries(c)} = Fields

\* C6 (amended): with prevState defined a step runs only if its field differs
\* between this.state, as it is when the step is reached, and prevState; for
\* syncIsEnabled, syncIsLocked and syncObjects this.state is the call's state, for
\* syncPosition and syncOpacity (after the await) it may be a state delivered
\* later. No step runs when state and prevState are the same object; with
\* prevState undefined all five steps run.
C6_StepsRunOnlyOnDifference ==
  \A k \in 1..Len(calls) :
    LET c == calls[k] IN
    IsSome(c.state) =>
      /\ IsSome(c.prevState) =>
           \A i \in StepEntries(c) :
             /\ c.log[i].changed
             /\ c.log[i].step \in {"isEnabled", "isLocked", "objects"} =>
                  Get(c.state)[c.log[i].step] # Get(c.prevState)[c.log[i].step]
      /\ c.prevState = c.state => c.log = <<>>
      /\ (~IsSome(c.prevState) /\ c.pc = "returned") =>
           {c.log[i].step : i \in StepEntries(c)} = Fields

\* A call whose prevState is defined ran syncObjects, was suspended, and ran
\* syncPosition after it although its own state and prevState have the same
\* position.
C6_Witness ==
  \E k \in 1..Len(calls) :
    LET c == calls[k] IN
    /\ IsSome(c.prevState) /\ IsSome(c.state)
    /\ c.pc = "returned"
    /\ \E i \in StepEntries(c) : c.log[i].step = "position"
    /\ \E i \in StepEntries(c) : c.log[i].step = "objects"
    /\ Get(c.state)["position"] = Get(c.prevState)["position"]

\* C7: a sync call with an undefined state runs no step, and no step runs once
\* the adapter is destroyed, the rest of an earlier suspended call included.
C7_NoStepOnDestroyedAdapter ==
  \A k \in 1..Len(calls) :
    /\ ~IsSome(calls[k].state) => calls[k].log = <<>>
    /\ \A i \in StepEntries(calls[k]) : ~calls[k].log[i].destroyed

\* C8: the steps of one call run in the order syncIsEnabled, syncIsLocked,
\* syncObjects, syncPosition, syncOpacity, and syncPosition and syncOpacity of a
\* call that ran syncObjects start only after that syncObjects has completed.
C8_StepsInOrderAfterObjects ==
  \A k \in 1..Len(calls) :
    LET c == calls[k] IN
    /\ \A i, j \in StepEntries(c) : i < j => OrderIndex(c.log[i].step) < OrderIndex(c.log[j].step)
    /\ \A i, j \in 1..Len(c.log) :
         (c.log[i].step = "objects" /\ c.log[j].step \in {"position", "opacity"}) =>
           \E d \in 1..Len(c.log) : c.log[d].step = "objectsDone" /\ i < d /\ d < j

\* A call ran all five steps, the last two after its syncObjects completed, while
\* another call ran in between.
C8_Witness ==
  \E k \in 1..Len(calls) :
    /\ StepsOf(calls[k]) = <<"isEnabled", "isLocked", "objects", "objectsDone", "position", "opacity">>
    /\ k < Len(calls)
    /\ calls[k + 1].overlapped

\* C5: getCanvas renders with the opacity of this.state, whatever opacity the
\* node has.
C5_CanvasHasStateOpacity ==
  IsSome(canvasOut) => Get(canvasOut).canvas.opacity = Some(Get(canvasOut).stateOpacity)

\* getCanvas ran while the node's opacity was not that of this.state.
C5_Witness ==
  /\ IsSome(canvasOut)
  /\ IsSome(Get(canvasOut).nodeOpacity)
  /\ Get(canvasOut).nodeOpacity # Some(Get(canvasOut).stateOpacity)

\*==========================================================================
\* Properties of the control adapter renderer (checked under SpecControlAdapters)
\*==========================================================================
RenderedEntities == Get(lastRender).entities
AdaptersBefore == Get(lastRender).before

\* The Konva image an entity with an image object is to be shown as.
ImageFor(e) ==
  [source |-> Get(IF IsSome(e.processedImageObject) THEN e.processedImageObject
                  ELSE e.imageObject).image,
   filters |-> IF e.filter = "LightnessToAlphaFilter" THEN <<"LightnessToAlphaFilter">> ELSE <<>>,
   opacity |-> e.opacity,
   visible |-> e.isEnabled]
HasImageObject(e) == IsSome(e.processedImageObject) \/ IsSome(e.imageObject)

\* C2: renderControlAdapter for an entity with an image object creates the layer
\* when there is none, and otherwise updates the existing layer so that its image
\* (once no load is under way, and unless the load failed) has the entity's
\* current image source, filter, opacity and visibility.
C2_AsStated ==
  IsSome(lastRender) =>
    \A i \in 1..Len(RenderedEntities) :
      LET e == RenderedEntities[i] IN
      HasImageObject(e) =>
        /\ e.id \in DOMAIN manager
        /\ manager[e.id].entries # <<>>
        /\ (/\ e.id \in DOMAIN AdaptersBefore
            /\ ~manager[e.id].entries[1].isLoading
            /\ ~manager[e.id].entries[1].isError) =>
             manager[e.id].entries[1].konvaImage = Some(ImageFor(e))

\* C3: after renderControlAdapters(manager, entities) the adapter ids of the
\* manager are the ids of entities: adapters of absent ids are destroyed, every
\* entity has one adapter of its own, and an adapter that existed is the same
\* one as before, not a new one.
C3_AdaptersAreTheEntities ==
  IsSome(lastRender) =>
    /\ DOMAIN manager = IdsOf(RenderedEntities)
    /\ \A id \in DOMAIN manager \cap DOMAIN AdaptersBefore :
         manager[id].serial = AdaptersBefore[id]
    /\ \A id \in DOMAIN manager \ DOMAIN AdaptersBefore, b \in DOMAIN AdaptersBefore :
         manager[id].serial # AdaptersBefore[b]
    /\ \A a, b \in DOMAIN manager : a # b => manager[a].serial # manager[b].serial

\* The last call was given one of two existing entities: the adapter of the other
\* is gone and the remaining one, whose image is still loading, was kept.
C3_Witness ==
  /\ IsSome(lastRender)
  /\ DOMAIN AdaptersBefore = {"ca1", "ca2"}
  /\ DOMAIN manager = {"ca1"}
  /\ manager["ca1"].entries # <<>>
  /\ manager["ca1"].entries[1].isLoading

\* C12: when an entity's opacity, visibility, filter or image changed while its
\* image was loading and renderControlAdapters was called for each change, the
\* last call being made during the load, then once the load has completed the
\* displayed image has the image source and attributes the entity had in the
\* last call.
C12_LoadedImageIsAsOfLastRender ==
  IsSome(lastRender) =>
    \A i \in 1..Len(RenderedEntities) :
      LET e == RenderedEntities[i] IN
      (/\ HasImageObject(e)
       /\ e.id \in Get(lastRender).loading
       /\ e.id \in DOMAIN manager
       /\ manager[e.id].entries # <<>>
       /\ ~manager[e.id].entries[1].isLoading
       /\ ~manager[e.id].entries[1].isError
       /\ IsSome(manager[e.id].entries[1].konvaImage)) =>
        manager[e.id].entries[1].konvaImage = Some(ImageFor(e))

====
